---------------------------- MODULE Spec2Model ----------------------------
(***************************************************************************)
(* PageRank (src/pagerank.py): transition_model, sample_pagerank and       *)
(* iterate_pagerank as a state machine.  One behaviour is one call of one  *)
(* of the three functions (`op`) on one corpus with one damping factor.    *)
(*                                                                         *)
(* Numbers that are floats in the source are exact rationals here, a pair  *)
(* <<numerator, denominator>> in lowest terms with a positive denominator. *)
(***************************************************************************)
EXTENDS Integers, FiniteSets, Sequences, TLC

VARIABLES
    op,             \* the function that is called
    corpus,         \* page -> set of pages it links to
    damping_factor, \* rational
    n,              \* sample_pagerank's n
    pc,             \* position in the called function
    error,          \* the exception raised, "" when none
    page,           \* transition_model's argument / sample_pagerank's current page
    i,              \* sample_pagerank: iterations of the loop done
    pagerank,       \* sample_pagerank: visit counts; iterate_pagerank: previous values
    new_pagerank,   \* iterate_pagerank: values written in the current pass
    todo,           \* iterate_pagerank: pages the current pass has not visited yet
    passes,         \* iterate_pagerank: update passes completed
    result,         \* the returned map (meaningful when pc = "done")
    start,          \* sample_pagerank: the first page (history)
    visited         \* sample_pagerank: the first page and every page drawn (history)

vars == <<op, corpus, damping_factor, n, pc, error, page, i, pagerank,
          new_pagerank, todo, passes, result, start, visited>>

-----------------------------------------------------------------------------
(* Bounds of the model *)

\* the largest n sample_pagerank is called with
MaxSamples == 3

\* update passes after which the model stops following iterate_pagerank
MaxPasses == 8

\* the largest numerator or denominator of a value of `pagerank` with
\* which the model still follows iterate_pagerank
MaxTerm == 4194304

\* the page names corpora are built from
PageOrder == <<"A", "B", "C", "D">>
Pages == {PageOrder[k] : k \in 1..Len(PageOrder)}

\* sample_pagerank is followed on the corpora over these pages
SamplePages == {"A", "B", "C"}

-----------------------------------------------------------------------------
(* Exact rational arithmetic *)

Abs(x) == IF x < 0 THEN -x ELSE x

\* The arithmetic is written as functions: a function is applied to the
\* values of its arguments, so an argument that is itself a long sum is
\* worked out once.
Rationals == Int \X (Nat \ {0})

gcd[a \in Nat, b \in Nat] == IF b = 0 THEN a ELSE gcd[b, a % b]

\* num/den in lowest terms, den > 0
rat[num \in Int, den \in Nat \ {0}] ==
    <<num \div gcd[Abs(num), den], den \div gcd[Abs(num), den]>>

Rat(num, den) == rat[num, den]

Zero == <<0, 1>>
One == <<1, 1>>

RNeg(x) == <<-x[1], x[2]>>

radd[x \in Rationals, y \in Rationals] ==
    LET l == (x[2] \div gcd[x[2], y[2]]) * y[2]
    IN  rat[x[1] * (l \div x[2]) + y[1] * (l \div y[2]), l]

RAdd(x, y) == radd[x, y]

RSub(x, y) == RAdd(x, RNeg(y))

rmul[x \in Rationals, y \in Rationals] ==
    LET g1 == gcd[Abs(x[1]), y[2]]
        g2 == gcd[Abs(y[1]), x[2]]
    IN  <<(x[1] \div g1) * (y[1] \div g2), (x[2] \div g2) * (y[2] \div g1)>>

RMul(x, y) == rmul[x, y]

\* x / k for an integer k > 0
RDivInt(x, k) == RMul(x, <<1, k>>)

RAbs(x) == <<Abs(x[1]), x[2]>>

\* floor(t * k) and whether t * k is an integer, for a rational t of small
\* terms and an integer k >= 0, without the product t[1] * k
FloorMul(t, k) == t[1] * (k \div t[2]) + (t[1] * (k % t[2])) \div t[2]
WholeMul(t, k) == (t[1] * (k % t[2])) % t[2] = 0

\* x > t and x >= t for rationals x >= 0 and t > 0, t of small terms
MoreThan(x, t) == x[1] > FloorMul(t, x[2])
AtLeast(x, t) ==
    \/ x[1] > FloorMul(t, x[2])
    \/ x[1] = FloorMul(t, x[2]) /\ WholeMul(t, x[2])

\* the sum of a sequence of rationals
sumseq[s \in Seq(Rationals)] ==
    IF s = <<>> THEN Zero ELSE radd[Head(s), sumseq[Tail(s)]]

\* the pages of S in the order of PageOrder
InOrder(S) == SelectSeq(PageOrder, LAMBDA q : q \in S)

\* the sum of the values of the map f
RSum(f) ==
    sumseq[[k \in 1..Cardinality(DOMAIN f) |-> f[InOrder(DOMAIN f)[k]]]]

RECURSIVE ISum(_, _)
ISum(f, S) ==
    IF S = {} THEN 0
    ELSE LET p == CHOOSE q \in S : TRUE
         IN  f[p] + ISum(f, S \ {p})

-----------------------------------------------------------------------------
(* Inputs *)

\* crawl: every page maps to a set of other pages of the corpus
CorporaOver(U) ==
    UNION {
        {c \in [K -> SUBSET K] : \A p \in K : p \notin c[p]} : K \in SUBSET U
    }

Corpora == CorporaOver(Pages)

\* Page names are opaque and iterate_pagerank's loops are followed in every
\* order, so every corpus is a renaming of one over the first k pages whose
\* pages have, in name order, non-decreasing numbers of links.
IterCorpora ==
    UNION {
        LET K == {PageOrder[j] : j \in 1..k}
        IN  {c \in CorporaOver(K) :
                /\ DOMAIN c = K
                /\ \A j \in 1..(k - 1) :
                       Cardinality(c[PageOrder[j]])
                           <= Cardinality(c[PageOrder[j + 1]])}
        : k \in 0..Len(PageOrder)
    }

\* 0, 1/2, DAMPING = 0.85, 1
Dampings == {<<0, 1>>, <<1, 2>>, <<17, 20>>, <<1, 1>>}

\* iterate_pagerank is followed for 0, 1/4 and 1
IterDampings == {<<0, 1>>, <<1, 4>>, <<1, 1>>}

NoMap == <<>>

-----------------------------------------------------------------------------
(* transition_model *)

\* faulty variant: damping_factor / corpus_len
BaseProbabilityWrong(c, d) == RDivInt(d, Cardinality(DOMAIN c))

\* rank_map[link] = (1 - damping_factor) / corpus_len
BaseProbability(c, d) == RDivInt(RSub(One, d), Cardinality(DOMAIN c))

\* faulty variant: links = corpus[page], dangling or not
LinksNoDangling(c, pg) == c[pg]

\* links = corpus[page] if corpus[page] else corpus.keys()
Links(c, pg) == IF c[pg] # {} THEN c[pg] ELSE DOMAIN c

transition_model(c, pg, d) ==
    LET rank_map == [link \in DOMAIN c |-> BaseProbability(c, d)]
        links    == Links(c, pg)
    IN  [p \in DOMAIN c |->
            IF p \in links
            THEN RAdd(rank_map[p], RDivInt(d, Cardinality(links)))
            ELSE rank_map[p]]

\* A call transition_model(corpus, pg, damping_factor): corpus[pg] raises
\* KeyError when pg is no key of the corpus (every pg, for an empty corpus).
TransitionModel ==
    /\ op = "transition_model"
    /\ pc = "call"
    /\ \E pg \in Pages :
        /\ page' = pg
        /\ IF pg \in DOMAIN corpus
           THEN /\ result' = transition_model(corpus, pg, damping_factor)
                /\ pc' = "done"
                /\ error' = ""
           ELSE /\ result' = NoMap
                /\ pc' = "raised"
                /\ error' = "KeyError"
    /\ UNCHANGED <<op, corpus, damping_factor, n, i, pagerank, new_pagerank,
                   todo, passes, start, visited>>

-----------------------------------------------------------------------------
(* sample_pagerank *)

\* faulty variant: pagerank[page] = 1
VisitOnce(pr, pg) == [pr EXCEPT ![pg] = 1]

\* pagerank[page] += 1
Visit(pr, pg) == [pr EXCEPT ![pg] = @ + 1]

\* faulty variant: random.choices(list(sample.keys())), no weights
ChoicesAnyKey(sample) == DOMAIN sample

\* random.choices(list(sample.keys()), list(sample.values())): the pages
\* the weighted draw can return are those of positive weight
Choices(sample) == {q \in DOMAIN sample : sample[q][1] > 0}

\* {page: count / n for page, count in pagerank.items()}
Normalize(pr, k) == [p \in DOMAIN pr |-> Rat(pr[p], k)]

\* The counts are set to zero and the first page is drawn;
\* random.choice raises IndexError on the empty list.
SampleStart ==
    /\ op = "sample_pagerank"
    /\ pc = "call"
    /\ pagerank' = [p \in DOMAIN corpus |-> 0]
    /\ IF DOMAIN corpus = {}
       THEN /\ pc' = "raised"
            /\ error' = "IndexError"
            /\ UNCHANGED <<page, start, visited>>
       ELSE /\ \E first \in DOMAIN corpus :
                /\ page' = first
                /\ start' = first
                /\ visited' = {first}
            /\ pc' = "loop"
            /\ error' = ""
    /\ UNCHANGED <<op, corpus, damping_factor, n, i, new_pagerank, todo,
                   passes, result>>

\* One iteration of `for _ in range(n)`.
SampleStep ==
    /\ op = "sample_pagerank"
    /\ pc = "loop"
    /\ i < n
    /\ pagerank' = Visit(pagerank, page)
    /\ LET sample == transition_model(corpus, page, damping_factor)
       IN  \E drawn \in Choices(sample) :
               /\ page' = drawn
               /\ visited' = visited \cup {drawn}
    /\ i' = i + 1
    /\ UNCHANGED <<op, corpus, damping_factor, n, pc, error, new_pagerank,
                   todo, passes, result, start>>

\* The return statement; count / n raises ZeroDivisionError for n = 0.
SampleReturn ==
    /\ op = "sample_pagerank"
    /\ pc = "loop"
    /\ i = n
    /\ IF n = 0
       THEN /\ pc' = "raised"
            /\ error' = "ZeroDivisionError"
            /\ UNCHANGED result
       ELSE /\ pc' = "done"
            /\ result' = Normalize(pagerank, n)
            /\ UNCHANGED error
    /\ UNCHANGED <<op, corpus, damping_factor, n, page, i, pagerank,
                   new_pagerank, todo, passes, start, visited>>

-----------------------------------------------------------------------------
(* iterate_pagerank *)

\* threshold = 0.001
Threshold == <<1, 1000>>

\* faulty variant: no else branch, a dangling page adds nothing
ContributionNoDangling(c, d, pr, pg, p) ==
    IF c[p] # {} /\ pg \in c[p]
    THEN RMul(d, RDivInt(pr[p], Cardinality(c[p])))
    ELSE Zero

\* what page p adds to the total of page pg: the body of `for p in corpus`
Contribution(c, d, pr, pg, p) ==
    IF c[p] # {}
    THEN IF pg \in c[p]
         THEN RMul(d, RDivInt(pr[p], Cardinality(c[p])))
         ELSE Zero
    ELSE RMul(d, RDivInt(pr[p], Cardinality(DOMAIN c)))

\* the value written to new_pagerank[pg], computed from the map pr
NewRank(c, d, pr, pg) ==
    RAdd(RDivInt(RSub(One, d), Cardinality(DOMAIN c)),
         sumseq[[k \in 1..Cardinality(DOMAIN c) |->
                    Contribution(c, d, pr, pg, InOrder(DOMAIN c)[k])]])

\* faulty variant: new_pagerank = pagerank without copy, so that the
\* inner loop reads what the pass has already written
ReadsNew(old, new) == new

\* the map the inner loop reads: pagerank[p], never new_pagerank[p]
Reads(old, new) == old

\* faulty variant: diff > threshold
DiffAboveOnly(old, new, p) == MoreThan(RAbs(RSub(new[p], old[p])), Threshold)

\* diff >= threshold
DiffAtLeast(old, new, p) == AtLeast(RAbs(RSub(new[p], old[p])), Threshold)

\* faulty variant: one page's diff below the threshold is enough
ConvergedAny(old, new) ==
    \E p \in DOMAIN old : ~ AtLeast(RAbs(RSub(new[p], old[p])), Threshold)

\* faulty variant: only an unchanged map counts as converged
ConvergedExact(old, new) == old = new

\* `next` after the loop over pagerank: no page's diff reached the threshold
Converged(old, new) == \A p \in DOMAIN old : ~ DiffAtLeast(old, new, p)

\* The model follows the loop for MaxPasses passes, while the values it
\* reads have terms of at most MaxTerm.
Followed ==
    /\ passes < MaxPasses
    /\ \A p \in DOMAIN pagerank :
           Abs(pagerank[p][1]) <= MaxTerm /\ pagerank[p][2] <= MaxTerm

\* Every page starts at 1 / corpus_len; new_pagerank is a copy.
IterStart ==
    /\ op = "iterate_pagerank"
    /\ pc = "call"
    /\ pagerank' = [p \in DOMAIN corpus |-> <<1, Cardinality(DOMAIN corpus)>>]
    /\ new_pagerank' = pagerank'
    /\ todo' = DOMAIN corpus
    /\ pc' = "pass"
    /\ UNCHANGED <<op, corpus, damping_factor, n, error, page, i, passes,
                   result, start, visited>>

\* One iteration of `for page in corpus` (lines 122-132); the order of the
\* pages of a dict is the order they were inserted in, which is any order.
IterPage ==
    /\ op = "iterate_pagerank"
    /\ pc = "pass"
    /\ Followed
    /\ \E pg \in todo :
        /\ new_pagerank' =
               [new_pagerank EXCEPT
                   ![pg] = NewRank(corpus, damping_factor,
                                   Reads(pagerank, new_pagerank), pg)]
        /\ todo' = todo \ {pg}
    /\ UNCHANGED <<op, corpus, damping_factor, n, pc, error, page, i,
                   pagerank, passes, result, start, visited>>

\* The end of a pass (lines 134-143): return new_pagerank, or copy it to
\* pagerank and start the next pass.
IterCheck ==
    /\ op = "iterate_pagerank"
    /\ pc = "pass"
    /\ Followed
    /\ todo = {}
    /\ passes' = passes + 1
    /\ IF Converged(pagerank, new_pagerank)
       THEN /\ result' = new_pagerank
            /\ pc' = "done"
            /\ UNCHANGED <<pagerank, todo>>
       ELSE /\ pagerank' = new_pagerank
            /\ todo' = DOMAIN corpus
            /\ UNCHANGED <<result, pc>>
    /\ UNCHANGED <<op, corpus, damping_factor, n, error, page, i,
                   new_pagerank, start, visited>>

-----------------------------------------------------------------------------
(* Specifications *)

InitCommon ==
    /\ pc = "call"
    /\ error = ""
    /\ page = "none"
    /\ i = 0
    /\ pagerank = NoMap
    /\ new_pagerank = NoMap
    /\ todo = {}
    /\ passes = 0
    /\ result = NoMap
    /\ start = "none"
    /\ visited = {}

\* transition_model on every corpus over Pages
InitTM ==
    /\ op = "transition_model"
    /\ corpus \in Corpora
    /\ damping_factor \in Dampings
    /\ n = 0
    /\ InitCommon

NextTM == TransitionModel

SpecTM == InitTM /\ [][NextTM]_vars

\* sample_pagerank on every corpus over SamplePages
InitSample ==
    /\ op = "sample_pagerank"
    /\ corpus \in CorporaOver(SamplePages)
    /\ damping_factor \in Dampings
    /\ n \in 0..MaxSamples
    /\ InitCommon

NextSample == SampleStart \/ SampleStep \/ SampleReturn

SpecSample == InitSample /\ [][NextSample]_vars

\* iterate_pagerank on the corpora of IterCorpora; with damping 1/250 the
\* first pass of A -> B, B -> nothing changes both values by exactly 0.001
InitIter ==
    /\ op = "iterate_pagerank"
    /\ \/ corpus \in IterCorpora /\ damping_factor \in IterDampings
       \/ corpus \in CorporaOver({"A", "B"}) /\ damping_factor = <<1, 250>>
    /\ n = 0
    /\ InitCommon

NextIter == IterStart \/ IterPage \/ IterCheck

SpecIter == InitIter /\ [][NextIter]_vars

\* The calls whose return is claimed, those with a damping factor below 1;
\* the loop is the only thread and runs on until it returns.
InitIterLive == InitIter /\ damping_factor # One

SpecIterLive == InitIterLive /\ [][NextIter]_vars /\ WF_vars(NextIter)

\* the three functions on the corpora over SamplePages
Init ==
    /\ op \in {"transition_model", "sample_pagerank", "iterate_pagerank"}
    /\ corpus \in CorporaOver(SamplePages)
    /\ damping_factor \in IterDampings
    /\ n \in 0..MaxSamples
    /\ InitCommon

Next == NextTM \/ NextSample \/ NextIter

Spec == Init /\ [][Next]_vars

-----------------------------------------------------------------------------
(* Properties of transition_model *)

\* |new value - old value| of page p
Change(old, new, p) == RAbs(RSub(new[p], old[p]))

\* N = len(corpus)
NumPages == Cardinality(DOMAIN corpus)

\* C1: the map transition_model returns has exactly the corpus pages as
\* keys, no negative value, and values that sum to exactly 1.
C1_DistributionValid ==
    (op = "transition_model" /\ pc = "done") =>
        /\ DOMAIN result = DOMAIN corpus
        /\ \A p \in DOMAIN result : result[p][1] >= 0 /\ result[p][2] > 0
        /\ RSum(result) = One

\* a page with some, not all, pages as links
C1_Witness ==
    /\ op = "transition_model" /\ pc = "done"
    /\ NumPages = 4
    /\ Cardinality(corpus[page]) = 2
    /\ damping_factor = <<17, 20>>

\* C2: every page q gets (1 - damping)/N, plus damping/|links| when q is in
\* links, links being corpus[page] or, for a dangling page, all the pages;
\* a dangling page gives every page 1/N, as if it linked to every page.
C2_TransitionValues ==
    (op = "transition_model" /\ pc = "done") =>
        LET links == IF corpus[page] = {} THEN DOMAIN corpus ELSE corpus[page]
            L     == Cardinality(links)
            dn    == damping_factor[1]
            dd    == damping_factor[2]
        IN  /\ \A q \in DOMAIN corpus :
                result[q] = Rat((dd - dn) * L + (IF q \in links THEN dn * NumPages ELSE 0),
                                dd * NumPages * L)
            /\ corpus[page] = {} =>
                /\ \A q \in DOMAIN corpus : result[q] = <<1, NumPages>>
                /\ result = transition_model([corpus EXCEPT ![page] = DOMAIN corpus],
                                             page, damping_factor)

\* a dangling page among three
C2_Witness ==
    /\ op = "transition_model" /\ pc = "done"
    /\ NumPages = 3
    /\ corpus[page] = {}
    /\ damping_factor = <<17, 20>>

-----------------------------------------------------------------------------
(* Properties of sample_pagerank *)

\* C3: the visit counts total the number of iterations done, n when the
\* loop ends, and the returned map has exactly the corpus pages as keys
\* and values that sum to 1.
C3_SampleNormalized ==
    op = "sample_pagerank" =>
        /\ pc = "loop" => ISum(pagerank, DOMAIN pagerank) = i
        /\ pc = "done" =>
            /\ n >= 1
            /\ ISum(pagerank, DOMAIN pagerank) = n
            /\ DOMAIN result = DOMAIN corpus
            /\ RSum(result) = One

\* a walk of three steps that came back to a page
C3_Witness ==
    /\ op = "sample_pagerank" /\ pc = "done"
    /\ n = 3
    /\ Cardinality(visited) >= 2
    /\ \E p \in DOMAIN corpus : pagerank[p] = 2

\* C10: every page the walk moves to is a corpus page of positive
\* probability in the distribution of the page it leaves; with damping 1 a
\* page with links is left along one of them; a page that was neither the
\* first page nor ever drawn ends with rank 0.
C10_WalkFollowsDistribution ==
    /\ [][(op = "sample_pagerank" /\ pc = "loop" /\ i' = i + 1) =>
            /\ page' \in DOMAIN corpus
            /\ transition_model(corpus, page, damping_factor)[page'][1] > 0
            /\ (damping_factor = One /\ corpus[page] # {}) => page' \in corpus[page]
         ]_vars
    /\ []((op = "sample_pagerank" /\ pc = "done") =>
            \A q \in DOMAIN corpus \ visited : result[q] = Zero)

\* damping 1: the walk followed a link and left some page unreached
C10_Witness ==
    /\ op = "sample_pagerank" /\ pc = "done"
    /\ damping_factor = One
    /\ corpus[start] # {}
    /\ Cardinality(visited) >= 2
    /\ \E q \in DOMAIN corpus : q \notin visited /\ result[q] = Zero

-----------------------------------------------------------------------------
(* Properties of iterate_pagerank *)

\* one more update pass applied to the map pr
OneMorePass(pr) ==
    [p \in DOMAIN corpus |-> NewRank(corpus, damping_factor, pr, p)]

\* C4: the map iterate_pagerank returns for a non-empty corpus has exactly
\* the corpus pages as keys and values that sum to 1, dangling pages or not.
C4_IterateSumsToOne ==
    (op = "iterate_pagerank" /\ pc = "done" /\ DOMAIN corpus # {}) =>
        /\ DOMAIN result = DOMAIN corpus
        /\ RSum(result) = One

\* four pages, one of them dangling, several passes
C4_Witness ==
    /\ op = "iterate_pagerank" /\ pc = "done"
    /\ NumPages = 4
    /\ \E p \in DOMAIN corpus : corpus[p] = {}
    /\ \E p \in DOMAIN corpus : corpus[p] # {}
    /\ damping_factor = <<1, 4>>
    /\ passes >= 3

\* C5 as claimed: one more pass on the returned map changes no page's
\* value by more than threshold.
C5_OneMorePassWithinThreshold ==
    (op = "iterate_pagerank" /\ pc = "done") =>
        \A p \in DOMAIN corpus :
            ~ MoreThan(Change(result, OneMorePass(result), p), Threshold)

\* C5 as amended: one more pass on the returned map changes no page's
\* value by more than N/2 times threshold, N the number of pages.
C5_OneMorePassWithinHalfN ==
    (op = "iterate_pagerank" /\ pc = "done") =>
        \A p \in DOMAIN corpus :
            ~ MoreThan(Change(result, OneMorePass(result), p),
                       <<NumPages, 2 * Threshold[2]>>)

\* a returned map that one more pass changes by more than threshold
C5_Witness ==
    /\ op = "iterate_pagerank" /\ pc = "done"
    /\ passes >= 2
    /\ \E p \in DOMAIN corpus :
           MoreThan(Change(result, OneMorePass(result), p), Threshold)

\* C6: a pass ends by returning its new values when every page's change is
\* strictly below threshold, and otherwise by adopting them as current and
\* starting another pass; a return happens only so, after at least one pass.
C6_ReturnsAtFirstConvergedPass ==
    /\ [][(op = "iterate_pagerank" /\ pc = "pass" /\ passes' = passes + 1) =>
            IF \A p \in DOMAIN corpus :
                   ~ AtLeast(Change(pagerank, new_pagerank, p), Threshold)
            THEN pc' = "done" /\ result' = new_pagerank
            ELSE pc' = "pass" /\ pagerank' = new_pagerank /\ todo' = DOMAIN corpus
         ]_vars
    /\ [][(op = "iterate_pagerank" /\ pc # "done" /\ pc' = "done") =>
            todo = {} /\ passes' = passes + 1
         ]_vars
    /\ []((op = "iterate_pagerank" /\ pc = "done") => passes >= 1)

\* a second pass begins after a first that changed a value by exactly 0.001
C6_Witness ==
    /\ op = "iterate_pagerank" /\ pc = "pass"
    /\ passes = 1
    /\ \A p \in DOMAIN corpus :
           Change([q \in DOMAIN corpus |-> <<1, NumPages>>], pagerank, p) = Threshold

\* C7: the first pass reads 1/N for every page, and the value a pass has
\* written for a page is the recurrence on the previous pass's values,
\* whichever pages the pass visited before it; so is the returned map.
C7_ReadsPreviousPassOnly ==
    op = "iterate_pagerank" =>
        /\ (pc = "pass" /\ passes = 0) =>
               pagerank = [p \in DOMAIN corpus |-> <<1, NumPages>>]
        /\ pc = "pass" =>
               \A p \in DOMAIN corpus \ todo :
                   new_pagerank[p] = NewRank(corpus, damping_factor, pagerank, p)
        /\ pc = "done" => result = OneMorePass(pagerank)

\* mid-pass: a page already rewritten links to a page still to be computed
C7_Witness ==
    /\ op = "iterate_pagerank" /\ pc = "pass"
    /\ passes >= 1
    /\ \E p \in DOMAIN corpus \ todo :
        /\ new_pagerank[p] # pagerank[p]
        /\ corpus[p] \cap todo # {}

\* C8: called with an empty corpus, none of the three functions returns.
C8_EmptyCorpusNeverReturns ==
    DOMAIN corpus = {} => pc # "done"

\* C9: for a non-empty corpus and a damping below 1 the loop returns.
C9_IterateTerminates ==
    (op = "iterate_pagerank" /\ pc = "call" /\ DOMAIN corpus # {}
        /\ damping_factor # One)
    ~> (pc = "done")

\* a return after five passes or more
C9_Witness ==
    /\ op = "iterate_pagerank" /\ pc = "done"
    /\ NumPages = 4
    /\ damping_factor = <<1, 4>>
    /\ passes >= 5

=============================================================================
